---- MODULE Spec2Model ----
(***************************************************************************)
(* Bug-Tracker API: the report repository (models/report.ts), the session  *)
(* and role middleware (middleware/auth.ts), login (routes/auth.ts) and    *)
(* the report routes with the audit log and the signed download URLs       *)
(* (routes/reports.ts).  One action per request handler; a handler runs to *)
(* completion (Node's single thread), so an action is the whole handler.   *)
(***************************************************************************)
EXTENDS Integers, Sequences, FiniteSets, TLC

VARIABLES reports, nextId, auditLogs, now, ticks, tokens, uploads, nextFile,
          assigned, last, inflight

vars == <<reports, nextId, auditLogs, now, ticks, tokens, uploads, nextFile,
          assigned, last, inflight>>

(***************************************************************************)
(* Bounds of the model.                                                    *)
(***************************************************************************)
MaxId == 2        \* ids handed out by create
MaxAudit == 1     \* length of the audit log
MaxTicks == 1     \* clock advances in Spec
MaxFileTicks == 1 \* clock advances in SpecFiles
MaxSessions == 1  \* session tokens minted by login
MaxFiles == 2     \* files stored by multer
MaxLog == 2       \* length of the audit log in SpecAudit
MaxSessionTicks == 2  \* clock advances in SpecSessions
MaxEntries == 2   \* entries appended in SpecChildren
MaxClients == 2   \* clients with a create request in flight in SpecCreate

(***************************************************************************)
(* Program constants.                                                      *)
(***************************************************************************)
CapTTL == 900         \* expiresIn: '15m', in seconds
SessionTTL == 3600    \* expiresIn: '1h', in seconds

(***************************************************************************)
(* JavaScript values.                                                      *)
(***************************************************************************)
Absent == "<absent>"      \* a key that is not in the object / undefined string
NaN == 0 - 1              \* parseInt's NaN (no negative id is ever requested)
Undefined == 0 - 2        \* undefined where a number is expected
NoDigits == 0 - 3         \* a path segment that does not start with digits

Severities == {"low", "medium", "high", "critical"}
Titles == {"bug", "Bug", "crash"}
Descriptions == {"d1", "d2"}

\* String.prototype.toLowerCase on the titles of the model
toLowerCase(s) == CASE s \in {"bug", "Bug"} -> "bug"
                    [] OTHER -> s

\* a value used as a condition: 0, NaN and undefined are falsy
Truthy(n) == n \notin {0, NaN, Undefined}

\* parseInt(segment, 10): the leading digits, NaN when there are none
RawId(num, tail) == [num |-> num, tail |-> tail]
RawIds == {RawId(n, "") : n \in 0 .. MaxId + 1}
          \cup {RawId(1, "x"), RawId(NoDigits, "x")}
parseInt(raw) == IF raw.num = NoDigits THEN NaN ELSE raw.num
isNaN(n) == n = NaN

\* new Date() is read in milliseconds; jsonwebtoken works in whole seconds
Sec(ms) == ms \div 1000
Ms(s) == s * 1000

(***************************************************************************)
(* ReportStore (models/report.ts).  The store is the pair reports, nextId. *)
(***************************************************************************)
NoReport == [id |-> Undefined]

IndexOf(rs, id) ==
    IF \E i \in 1 .. Len(rs) : rs[i].id = id
    THEN CHOOSE i \in 1 .. Len(rs) :
             rs[i].id = id /\ \A j \in 1 .. (i - 1) : rs[j].id # id
    ELSE 0

getReport(rs, id) == IF IndexOf(rs, id) = 0 THEN NoReport ELSE rs[IndexOf(rs, id)]

\* getAllReports returns this.reports, the array of the store itself
getAllReports(rs) == rs

\* find() hands out the stored object, not a copy: the store after a caller has
\* assigned value to a field of the object getReport(id) returned (this is how
\* the handler of PUT /reports/:id writes, report.title = updates.title)
assignField(rs, id, field, value) ==
    IF IndexOf(rs, id) = 0 THEN rs
    ELSE [rs EXCEPT ![IndexOf(rs, id)] = [@ EXCEPT ![field] = value]]

\* mutant: the titles are compared as they are, without toLowerCase
titleExists_exact(rs, title, excludeId) ==
    \E i \in 1 .. Len(rs) :
        /\ rs[i].title = title
        /\ IF Truthy(excludeId) THEN rs[i].id # excludeId ELSE TRUE

titleExists(rs, title, excludeId) ==
    \E i \in 1 .. Len(rs) :
        /\ toLowerCase(rs[i].title) = toLowerCase(title)
        /\ IF Truthy(excludeId) THEN rs[i].id # excludeId ELSE TRUE

\* mutant: updatedAt is left at the epoch until the first update
NewReport_unstamped(id, data, t) ==
    [id |-> id, title |-> data.title, description |-> data.description,
     severity |-> data.severity, createdAt |-> t, updatedAt |-> 0,
     entries |-> <<>>, attachments |-> <<>>]

NewReport(id, data, t) ==
    [id |-> id, title |-> data.title, description |-> data.description,
     severity |-> data.severity, createdAt |-> t, updatedAt |-> t,
     entries |-> <<>>, attachments |-> <<>>]

\* mutant: the id is the number of stored reports plus one
addReport_reuse(rs, nid, data, t) ==
    [reports |-> Append(rs, NewReport(Len(rs) + 1, data, t)),
     nextId |-> nid + 1,
     report |-> NewReport(Len(rs) + 1, data, t)]

\* returns the store after the call and the report created
addReport(rs, nid, data, t) ==
    [reports |-> Append(rs, NewReport(nid, data, t)),
     nextId |-> nid + 1,
     report |-> NewReport(nid, data, t)]

\* updateReport assigns every field the caller supplies and stamps the report;
\* it returns the report, or undefined when the id is not stored
updateReport(rs, id, updates, t) ==
    IF IndexOf(rs, id) = 0 THEN [reports |-> rs, found |-> FALSE]
    ELSE [reports |->
              [rs EXCEPT ![IndexOf(rs, id)] =
                  [@ EXCEPT
                      !.title = IF updates.title # Absent THEN updates.title ELSE @,
                      !.description = IF updates.description # Absent
                                      THEN updates.description ELSE @,
                      !.severity = IF updates.severity # Absent
                                   THEN updates.severity ELSE @,
                      !.updatedAt = t]],
          found |-> TRUE]

\* mutant: the upload stamps every stored report
addAttachment_stampAll(rs, reportId, attachment, t) ==
    IF IndexOf(rs, reportId) = 0 THEN rs
    ELSE [i \in 1 .. Len(rs) |->
             IF i = IndexOf(rs, reportId)
             THEN [rs[i] EXCEPT !.attachments = Append(@, attachment), !.updatedAt = t]
             ELSE [rs[i] EXCEPT !.updatedAt = t]]

addAttachment(rs, reportId, attachment, t) ==
    IF IndexOf(rs, reportId) = 0 THEN rs
    ELSE [rs EXCEPT ![IndexOf(rs, reportId)] =
             [@ EXCEPT !.attachments = Append(@, attachment), !.updatedAt = t]]

RemoveAt(rs, i) == SubSeq(rs, 1, i - 1) \o SubSeq(rs, i + 1, Len(rs))

deleteReport(rs, id) ==
    IF IndexOf(rs, id) = 0 THEN [reports |-> rs, deleted |-> FALSE]
    ELSE [reports |-> RemoveAt(rs, IndexOf(rs, id)), deleted |-> TRUE]

(***************************************************************************)
(* Token codec: jsonwebtoken's sign and verify with the process secret.    *)
(* A token is its payload, its expiry in seconds and its signature; only   *)
(* sign produces sig = "ok".  A key missing from the payload reads as      *)
(* undefined (Absent for strings, Undefined for numbers).                  *)
(***************************************************************************)
sign(payload, ttl, t) ==
    [sig |-> "ok", id |-> payload.id, role |-> payload.role,
     reportId |-> payload.reportId, file |-> payload.file,
     iat |-> Sec(t), exp |-> Sec(t) + ttl]

\* mutant: the expiry is not looked at
verify_noExpiry(token, t) == token.sig = "ok"

\* jwt.verify throws on a malformed token, a bad signature or an expired one
verify(token, t) == token.sig = "ok" /\ Sec(t) < token.exp

AuthPayload(id, role) ==
    [id |-> id, role |-> role, reportId |-> Undefined, file |-> Undefined]
\* mutant: the two claims are filled in with each other's value
CapPayload_swapped(reportId, file) ==
    [id |-> Absent, role |-> Absent, reportId |-> file, file |-> reportId]

CapPayload(reportId, file) ==
    [id |-> Absent, role |-> Absent, reportId |-> reportId, file |-> file]

\* what a client can put in a request without the secret
Malformed == [sig |-> "malformed", id |-> Absent, role |-> Absent,
              reportId |-> Undefined, file |-> Undefined, iat |-> 0, exp |-> 0]
ForgedTokens ==
    {[sign(AuthPayload("admin1", "admin"), SessionTTL, now) EXCEPT !.sig = "bad"],
     [sign(CapPayload(1, 1), CapTTL, now) EXCEPT !.sig = "bad"],
     Malformed}
NoToken == [Malformed EXCEPT !.sig = "none"]
PresentableTokens == tokens \cup ForgedTokens

\* the Authorization header of a request
AuthHeaders ==
    {[scheme |-> "none", token |-> NoToken], [scheme |-> "Basic", token |-> NoToken]}
    \cup {[scheme |-> "Bearer", token |-> tk] : tk \in PresentableTokens}

(***************************************************************************)
(* middleware/auth.ts                                                      *)
(***************************************************************************)
\* req.user before requireAuth has run
NoUser == [set |-> FALSE, id |-> Absent, role |-> Absent]
Unauthorized == [error |-> "Unauthorized"]

\* mutant: an expired token is told apart from the other failures
requireAuth_reason(authHeader, t) ==
    IF authHeader.scheme # "Bearer"
    THEN [ok |-> FALSE, status |-> 401, body |-> Unauthorized, user |-> NoUser]
    ELSE IF verify(authHeader.token, t)
         THEN [ok |-> TRUE, status |-> 200, body |-> Unauthorized,
               user |-> [set |-> TRUE, id |-> authHeader.token.id,
                         role |-> authHeader.token.role]]
         ELSE IF authHeader.token.sig = "ok"
         THEN [ok |-> FALSE, status |-> 401, body |-> [error |-> "Token expired"],
               user |-> NoUser]
         ELSE [ok |-> FALSE, status |-> 401, body |-> Unauthorized, user |-> NoUser]

\* next() is called iff ok; req.user is set from the decoded payload
requireAuth(authHeader, t) ==
    IF authHeader.scheme # "Bearer"
    THEN [ok |-> FALSE, status |-> 401, body |-> Unauthorized, user |-> NoUser]
    ELSE IF verify(authHeader.token, t)
         THEN [ok |-> TRUE, status |-> 200, body |-> Unauthorized,
               user |-> [set |-> TRUE, id |-> authHeader.token.id,
                         role |-> authHeader.token.role]]
         ELSE [ok |-> FALSE, status |-> 401, body |-> Unauthorized, user |-> NoUser]

requireRole(allowedRoles, user) ==
    IF ~user.set
    THEN [ok |-> FALSE, status |-> 401, body |-> Unauthorized]
    ELSE IF user.role \notin allowedRoles
         THEN [ok |-> FALSE, status |-> 403, body |-> [error |-> "Forbidden"]]
         ELSE [ok |-> TRUE, status |-> 200, body |-> Unauthorized]

(***************************************************************************)
(* routes/auth.ts: POST /auth/login                                        *)
(***************************************************************************)
LoginBodies ==
    {[id |-> "admin1", role |-> "admin"], [id |-> "dev1", role |-> "developer"],
     [id |-> "", role |-> "admin"], [id |-> "dev1", role |-> "guest"]}

\* mutant: the session token is signed for a day
login_day(body, t) ==
    IF body.id \in {"", Absent} \/ (body.role # "admin" /\ body.role # "developer")
    THEN [status |-> 400, minted |-> {}]
    ELSE [status |-> 200,
          minted |-> {sign(AuthPayload(body.id, body.role), 24 * SessionTTL, t)}]

login(body, t) ==
    IF body.id \in {"", Absent} \/ (body.role # "admin" /\ body.role # "developer")
    THEN [status |-> 400, minted |-> {}]
    ELSE [status |-> 200,
          minted |-> {sign(AuthPayload(body.id, body.role), SessionTTL, t)}]

(***************************************************************************)
(* routes/reports.ts                                                       *)
(***************************************************************************)
\* mutant: the scores start at 0
severityScoreMap_zeroBased(sev) ==
    CASE sev = "low" -> 0 [] sev = "medium" -> 1 [] sev = "high" -> 2
      [] sev = "critical" -> 3 [] OTHER -> 0

severityScoreMap(sev) ==
    CASE sev = "low" -> 1 [] sev = "medium" -> 2 [] sev = "high" -> 3
      [] sev = "critical" -> 4 [] OTHER -> 0

Summary(report) ==
    [id |-> report.id, title |-> report.title, description |-> report.description,
     severity |-> report.severity, createdAt |-> report.createdAt,
     updatedAt |-> report.updatedAt, entryCount |-> Len(report.entries),
     severityScore |-> severityScoreMap(report.severity)]

Err(msg) == [error |-> msg]

\* JSON bodies: the three known keys (Absent when the key is missing) and
\* whether any other key is present
Body(title, description, severity, extra) ==
    [title |-> title, description |-> description, severity |-> severity,
     extra |-> extra]

\* bodies sent to POST /reports
CreateBodies ==
    {Body(t, "d1", sv, FALSE) : t \in Titles, sv \in {Absent, "critical"}}
    \cup {Body(Absent, "d1", Absent, FALSE), Body("bug", "", "low", FALSE),
          Body("bug", "d1", "urgent", FALSE), Body("crash", "d1", "low", TRUE)}

\* bodies of PUT /reports/:id
UpdateBodies ==
    {Body(t, d, sv, FALSE) : t \in Titles \cup {Absent}, d \in {"d2", Absent},
                             sv \in Severities \cup {Absent}}
    \cup {Body("", Absent, Absent, FALSE), Body(Absent, "", "low", FALSE),
          Body(Absent, Absent, "urgent", FALSE), Body(Absent, "d2", Absent, TRUE)}

\* the bodies the clients of the model send to PUT /reports/:id
SentUpdates ==
    {Body("Bug", Absent, Absent, FALSE), Body("crash", Absent, Absent, FALSE),
     Body(Absent, "d2", Absent, FALSE), Body(Absent, Absent, "critical", FALSE),
     Body(Absent, Absent, "low", FALSE), Body("bug", "d2", "critical", FALSE),
     Body(Absent, Absent, Absent, FALSE),
     Body("", Absent, Absent, FALSE), Body(Absent, "d2", Absent, TRUE)}

\* the bodies the clients of SpecFiles send to POST /reports
FileReportBodies ==
    {Body("bug", "d1", Absent, FALSE), Body("crash", "d1", Absent, FALSE)}

\* NewReportSchema.safeParse(body).success
NewReportSchema(body) ==
    /\ body.title \notin {"", Absent}
    /\ body.description \notin {"", Absent}
    /\ body.severity \in Severities \cup {Absent}
    /\ ~body.extra

\* result.data of NewReportSchema: severity defaults to 'low'
NewReportData(body) ==
    [title |-> body.title, description |-> body.description,
     severity |-> IF body.severity = Absent THEN "low" ELSE body.severity]

\* UpdateReportSchema.safeParse(body).success
UpdateReportSchema(body) ==
    /\ body.title # ""
    /\ body.description # ""
    /\ body.severity \in Severities \cup {Absent}
    /\ ~body.extra

\* Object.keys(req.body).length === 0
EmptyBody(body) ==
    body.title = Absent /\ body.description = Absent /\ body.severity = Absent
    /\ ~body.extra

\* mutant: the report is added without looking for its title
postReports_unchecked(rs, nid, body, t) ==
    IF ~NewReportSchema(body)
    THEN [status |-> 400, body |-> Err("Invalid request data"),
          reports |-> rs, nextId |-> nid]
    ELSE LET r == addReport(rs, nid, NewReportData(body), t)
         IN  [status |-> 201,
              body |-> [Summary(r.report) EXCEPT !.entryCount = 0],
              reports |-> r.reports, nextId |-> r.nextId]

\* POST /reports, after requireAuth
postReports(rs, nid, body, t) ==
    IF ~NewReportSchema(body)
    THEN [status |-> 400, body |-> Err("Invalid request data"),
          reports |-> rs, nextId |-> nid]
    ELSE IF titleExists(rs, NewReportData(body).title, Undefined)
    THEN [status |-> 409, body |-> Err("A report with this title already exists"),
          reports |-> rs, nextId |-> nid]
    ELSE LET r == addReport(rs, nid, NewReportData(body), t)
         IN  [status |-> 201,
              body |-> [Summary(r.report) EXCEPT !.entryCount = 0],
              reports |-> r.reports, nextId |-> r.nextId]

UpdateFields == {"title", "description", "severity"}

\* mutant: every supplied field counts as changed, equal to the stored value or not
Changed_supplied(report, updates) ==
    {f \in UpdateFields : updates[f] # Absent}

\* the fields the handler finds changed: supplied and different from the stored value
Changed(report, updates) ==
    {f \in UpdateFields : updates[f] # Absent /\ updates[f] # report[f]}

\* mutant: the record lists every supplied field
Changes_supplied(report, updates) ==
    [f \in {g \in UpdateFields : updates[g] # Absent} |-> <<report[f], updates[f]>>]

\* changes: field -> [old, new]
Changes(report, updates) ==
    [f \in Changed(report, updates) |-> <<report[f], updates[f]>>]

\* mutant: the report is overwritten with the payload, missing fields included
Applied_replace(report, updates) ==
    [report EXCEPT !.title = updates.title, !.description = updates.description,
                   !.severity = updates.severity]

\* the report after the three conditional assignments
Applied(report, updates) ==
    [report EXCEPT
        !.title = IF "title" \in Changed(report, updates) THEN updates.title ELSE @,
        !.description = IF "description" \in Changed(report, updates)
                        THEN updates.description ELSE @,
        !.severity = IF "severity" \in Changed(report, updates)
                     THEN updates.severity ELSE @]

AuditEntry(report, user, changes, t) ==
    [reportId |-> report.id,
     userId |-> IF user.set THEN user.id ELSE "unknown",
     changes |-> changes, timestamp |-> t]

\* mutant: a caller who is no admin is refused every change of severity
EscalationDenied_anySeverity(updates, user) ==
    updates.severity # Absent /\ user.set /\ user.role # "admin"

\* mutant: the escalation rule never refuses
EscalationDenied_never(updates, user) == FALSE

\* the escalation rule of PUT /reports/:id
EscalationDenied(updates, user) ==
    updates.severity = "critical" /\ user.set /\ user.role # "admin"

\* mutant: the record is put at the front of the log (unshift for push)
putReport_unshift(rs, logs, user, rawId, body, t1, t2) ==
    LET id == parseInt(rawId)
        report == getReport(rs, id)
        same == [status |-> 200, body |-> Err(""), reports |-> rs, auditLogs |-> logs]
    IN
    IF isNaN(id)
    THEN [same EXCEPT !.status = 400, !.body = Err("Invalid report ID format")]
    ELSE IF EmptyBody(body)
    THEN [same EXCEPT !.status = 400, !.body = Err("No update data provided")]
    ELSE IF ~UpdateReportSchema(body)
    THEN [same EXCEPT !.status = 400, !.body = Err("Invalid update data")]
    ELSE IF report = NoReport
    THEN [same EXCEPT !.status = 404, !.body = Err("Report not found")]
    ELSE IF body.title # Absent /\ titleExists(rs, body.title, id)
    THEN [same EXCEPT !.status = 409,
                      !.body = Err("Another report with this title already exists")]
    ELSE IF EscalationDenied(body, user)
    THEN [same EXCEPT !.status = 403,
                      !.body = Err("Only admins can escalate severity to critical")]
    ELSE IF Changed(report, body) # {}
    THEN LET updated == [Applied(report, body) EXCEPT !.updatedAt = t1]
         IN  [status |-> 200, body |-> Summary(updated),
              reports |-> [rs EXCEPT ![IndexOf(rs, id)] = updated],
              auditLogs |-> <<AuditEntry(report, user, Changes(report, body), t2)>>
                            \o logs]
    ELSE [same EXCEPT !.body = Summary(report)]

\* mutant: the title and the description are assigned before the escalation rule
\* is looked at
putReport_applyFirst(rs, logs, user, rawId, body, t1, t2) ==
    LET id == parseInt(rawId)
        report == getReport(rs, id)
        same == [status |-> 200, body |-> Err(""), reports |-> rs, auditLogs |-> logs]
    IN
    IF isNaN(id)
    THEN [same EXCEPT !.status = 400, !.body = Err("Invalid report ID format")]
    ELSE IF EmptyBody(body)
    THEN [same EXCEPT !.status = 400, !.body = Err("No update data provided")]
    ELSE IF ~UpdateReportSchema(body)
    THEN [same EXCEPT !.status = 400, !.body = Err("Invalid update data")]
    ELSE IF report = NoReport
    THEN [same EXCEPT !.status = 404, !.body = Err("Report not found")]
    ELSE IF body.title # Absent /\ titleExists(rs, body.title, id)
    THEN [same EXCEPT !.status = 409,
                      !.body = Err("Another report with this title already exists")]
    ELSE IF EscalationDenied(body, user)
    THEN [same EXCEPT !.status = 403,
                      !.body = Err("Only admins can escalate severity to critical"),
                      !.reports = [rs EXCEPT ![IndexOf(rs, id)] =
                                      Applied(report, [body EXCEPT !.severity = Absent])]]
    ELSE IF Changed(report, body) # {}
    THEN LET updated == [Applied(report, body) EXCEPT !.updatedAt = t1]
         IN  [status |-> 200, body |-> Summary(updated),
              reports |-> [rs EXCEPT ![IndexOf(rs, id)] = updated],
              auditLogs |-> Append(logs,
                                   AuditEntry(report, user, Changes(report, body), t2))]
    ELSE [same EXCEPT !.body = Summary(report)]

\* PUT /reports/:id, after requireAuth; t1 and t2 are the two reads of the clock
putReport(rs, logs, user, rawId, body, t1, t2) ==
    LET id == parseInt(rawId)
        report == getReport(rs, id)
        same == [status |-> 200, body |-> Err(""), reports |-> rs, auditLogs |-> logs]
    IN
    IF isNaN(id)
    THEN [same EXCEPT !.status = 400, !.body = Err("Invalid report ID format")]
    ELSE IF EmptyBody(body)
    THEN [same EXCEPT !.status = 400, !.body = Err("No update data provided")]
    ELSE IF ~UpdateReportSchema(body)
    THEN [same EXCEPT !.status = 400, !.body = Err("Invalid update data")]
    ELSE IF report = NoReport
    THEN [same EXCEPT !.status = 404, !.body = Err("Report not found")]
    ELSE IF body.title # Absent /\ titleExists(rs, body.title, id)
    THEN [same EXCEPT !.status = 409,
                      !.body = Err("Another report with this title already exists")]
    ELSE IF EscalationDenied(body, user)
    THEN [same EXCEPT !.status = 403,
                      !.body = Err("Only admins can escalate severity to critical")]
    ELSE IF Changed(report, body) # {}
    THEN LET updated == [Applied(report, body) EXCEPT !.updatedAt = t1]
         IN  [status |-> 200, body |-> Summary(updated),
              reports |-> [rs EXCEPT ![IndexOf(rs, id)] = updated],
              auditLogs |-> Append(logs,
                                   AuditEntry(report, user, Changes(report, body), t2))]
    ELSE [same EXCEPT !.body = Summary(report)]

\* the outcomes of the console.log inside enqueueNewReport
LogOutcomes == {"logged", "failed"}

\* mutant: a failed background log takes the report out of the store again
enqueueNewReport_rollback(rs, reportId, outcome) ==
    IF outcome = "failed" THEN deleteReport(rs, reportId).reports ELSE rs

\* the store after the continuation of enqueueNewReport(report): it reads
\* report.id and report.title for the log line and writes nothing
enqueueNewReport(rs, reportId, outcome) == rs

\* a numeric query parameter as sent: NoParam when the key is missing (or its
\* value is the empty string), else the text parseInt is applied to
NoParam == RawId(Undefined, "")
QueryNumbers == {NoParam, RawId(0 - 4, ""), RawId(0, ""), RawId(1, ""), RawId(2, ""),
                 RawId(NoDigits, "x")}
Query(include, order, page, pageSize) ==
    [include |-> include, order |-> order, page |-> page, pageSize |-> pageSize]
Queries ==
    {Query(i, o, p, ps) : i \in {Absent, "entries", "entries,attachments"},
                          o \in {Absent, "asc", "desc"},
                          p \in QueryNumbers, ps \in QueryNumbers}

\* req.query.page ? parseInt(req.query.page, 10) : undefined
parseParam(raw) == IF raw = NoParam THEN Undefined ELSE parseInt(raw)

\* the comparator of entries.sort: a negative result puts a before b
Before(a, b, sortOrder) ==
    IF sortOrder = "asc" THEN a.createdAt < b.createdAt ELSE b.createdAt < a.createdAt

\* Array.prototype.sort is stable: elements that compare equal keep their order
RECURSIVE sort(_, _)
sort(entries, sortOrder) ==
    IF entries = <<>> THEN <<>>
    ELSE LET init == sort(SubSeq(entries, 1, Len(entries) - 1), sortOrder)
             e == entries[Len(entries)]
             k == Cardinality({i \in 1 .. Len(init) : ~Before(e, init[i], sortOrder)})
         IN  SubSeq(init, 1, k) \o <<e>> \o SubSeq(init, k + 1, Len(init))

\* Array.prototype.slice(start, end) for 0 <= start <= end
slice(seq, start, end) ==
    SubSeq(seq, (IF start < Len(seq) THEN start ELSE Len(seq)) + 1,
           IF end < Len(seq) THEN end ELSE Len(seq))

\* page and pageSize after the two defaulting statements (lines 71 and 72)
Paging(query) ==
    LET page0 == parseParam(query.page)
        pageSize0 == parseParam(query.pageSize)
        pageSize1 == IF Truthy(page0) /\ ~Truthy(pageSize0) THEN 10 ELSE pageSize0
        page1 == IF ~Truthy(page0) /\ Truthy(pageSize1) THEN 1 ELSE page0
    IN  [page |-> page1, pageSize |-> pageSize1]

\* mutant: report.entries itself is sorted, not a copy of it
storeAfterSort_inPlace(rs, id, sorted) ==
    [rs EXCEPT ![IndexOf(rs, id)] = [@ EXCEPT !.entries = sorted]]

\* the store after the handler has sorted entries: let entries = [...report.entries]
\* makes a copy, so the stored sequence keeps its order
storeAfterSort(rs, id, sorted) == rs

\* GET /reports/:id, after requireAuth; expanded and attached tell whether the
\* response has the keys entries and attachments (no response of the handler has
\* the latter)
getReports(rs, rawId, query) ==
    LET id == parseInt(rawId)
        report == getReport(rs, id)
        sortOrder == IF query.order = "asc" THEN "asc" ELSE "desc"
        entries == sort(report.entries, sortOrder)
        pg == Paging(query)
        startIndex == (pg.page - 1) * pg.pageSize
        after == storeAfterSort(rs, id, entries)
        res(st, msg) == [status |-> st, body |-> Err(msg), expanded |-> FALSE,
                         attached |-> FALSE, entries |-> <<>>, reports |-> rs]
    IN
    IF isNaN(id)
    THEN res(400, "Invalid report ID format")
    ELSE IF report = NoReport
    THEN res(404, "Report not found")
    ELSE IF query.include # "entries"
    THEN [status |-> 200, body |-> Summary(report), expanded |-> FALSE,
          attached |-> FALSE, entries |-> <<>>, reports |-> rs]
    ELSE IF Truthy(pg.page) /\ Truthy(pg.pageSize)
    THEN IF isNaN(pg.page) \/ isNaN(pg.pageSize) \/ pg.page < 1 \/ pg.pageSize < 1
         THEN [res(400, "Invalid pagination parameters") EXCEPT !.reports = after]
         ELSE [status |-> 200, body |-> Summary(report), expanded |-> TRUE,
               attached |-> FALSE,
               entries |-> slice(entries, startIndex, startIndex + pg.pageSize),
               reports |-> after]
    ELSE [status |-> 200, body |-> Summary(report), expanded |-> TRUE,
          attached |-> FALSE, entries |-> entries, reports |-> after]

\* bodies of POST /reports/:id/entries: the comment
Comments == {"c1", "", Absent}
Entry(id, author, comment, t) ==
    [id |-> id, author |-> author, comment |-> comment, createdAt |-> t]

\* ReportStore.addEntry: the entry is appended with the next id of its report
addEntry(rs, reportId, author, comment, t) ==
    IF IndexOf(rs, reportId) = 0 THEN rs
    ELSE [rs EXCEPT ![IndexOf(rs, reportId)].entries =
             Append(@, Entry(Len(@) + 1, author, comment, t))]

\* POST /reports/:id/entries, after requireAuth
postEntries(rs, user, rawId, comment, t) ==
    LET id == parseInt(rawId)
        same == [status |-> 400, body |-> Err(""), reports |-> rs]
    IN
    IF isNaN(id)
    THEN [same EXCEPT !.body = Err("Invalid report ID format")]
    ELSE IF comment \in {"", Absent}
    THEN [same EXCEPT !.body = Err("Invalid request data")]
    ELSE IF getReport(rs, id) = NoReport
    THEN [same EXCEPT !.status = 404, !.body = Err("Report not found")]
    ELSE [status |-> 201, body |-> Err(""),
          reports |-> addEntry(rs, id, user.id, comment, t)]

\* multipart upload: whether a file part named 'file' came with the request
Uploads == [hasFile : BOOLEAN, mimetype : {"text/plain"}]

Attachment(filename, up, t) ==
    [filename |-> filename, originalName |-> "orig", mimetype |-> up.mimetype,
     size |-> 1, uploadedAt |-> t]

\* mutant: the stored file is left on disk when the report does not exist
postAttachment_keepFile(rs, disk, rawId, up, filename, t1, t2) ==
    LET id == parseInt(rawId)
        report == getReport(rs, id)
        stored == IF up.hasFile THEN disk \cup {filename} ELSE disk
        same == [status |-> 400, body |-> Err(""), reports |-> rs,
                 uploads |-> stored, minted |-> {}]
    IN
    IF isNaN(id)
    THEN [same EXCEPT !.body = Err("Invalid report ID format"),
                      !.uploads = disk \ {filename}]
    ELSE IF report = NoReport
    THEN [same EXCEPT !.status = 404, !.body = Err("Report not found")]
    ELSE IF ~up.hasFile
    THEN [same EXCEPT !.body = Err("No file uploaded")]
    ELSE LET token == sign(CapPayload(id, filename), CapTTL, t2)
         IN  [status |-> 200,
              body |-> [downloadUrl |-> [id |-> id, filename |-> filename,
                                         token |-> token]],
              reports |-> addAttachment(rs, id, Attachment(filename, up, t1), t2),
              uploads |-> stored,
              minted |-> {token}]

\* POST /reports/:id/attachment, after requireAuth and upload.single('file'):
\* multer has stored the file as `filename` in uploads/ when the request had one
postAttachment(rs, disk, rawId, up, filename, t1, t2) ==
    LET id == parseInt(rawId)
        report == getReport(rs, id)
        stored == IF up.hasFile THEN disk \cup {filename} ELSE disk
        same == [status |-> 400, body |-> Err(""), reports |-> rs,
                 uploads |-> stored, minted |-> {}]
    IN
    IF isNaN(id)
    THEN [same EXCEPT !.body = Err("Invalid report ID format"),
                      !.uploads = disk \ {filename}]
    ELSE IF report = NoReport
    THEN [same EXCEPT !.status = 404, !.body = Err("Report not found"),
                      !.uploads = disk \ {filename}]
    ELSE IF ~up.hasFile
    THEN [same EXCEPT !.body = Err("No file uploaded")]
    ELSE LET token == sign(CapPayload(id, filename), CapTTL, t2)
         IN  [status |-> 200,
              body |-> [downloadUrl |-> [id |-> id, filename |-> filename,
                                         token |-> token]],
              reports |-> addAttachment(rs, id, Attachment(filename, up, t1), t2),
              uploads |-> stored,
              minted |-> {token}]

\* the token query parameter of a download request
QueryTokens == PresentableTokens \cup {NoToken}

\* mutant: a claim the token lacks is not compared
ScopeMismatch_defined(token, id, filename) ==
    \/ (token.reportId # Undefined /\ token.reportId # id)
    \/ (token.file # Undefined /\ token.file # filename)

\* mutant: && in place of ||
ScopeMismatch_both(token, id, filename) == token.reportId # id /\ token.file # filename

\* decoded.reportId !== id || decoded.file !== filename
ScopeMismatch(token, id, filename) == token.reportId # id \/ token.file # filename

\* mutant: the file on disk is sent without asking the store for the report
getAttachmentHandler_diskOnly(rs, disk, rawId, filename, token, t) ==
    LET id == parseInt(rawId)
        res(st, msg) == [status |-> st, body |-> Err(msg), bytes |-> FALSE]
    IN
    IF isNaN(id)
    THEN res(400, "Invalid request")
    ELSE IF token = NoToken
    THEN res(401, "Missing access token")
    ELSE IF ~verify(token, t)
    THEN res(401, "Unauthorized or expired token")
    ELSE IF ScopeMismatch(token, id, filename)
    THEN res(403, "Invalid token for this file")
    ELSE IF filename \notin disk
    THEN res(404, "Not Found")
    ELSE [status |-> 200, body |-> Err(""), bytes |-> TRUE]

\* mutant: the report and the attachment are looked up before the token is verified
getAttachmentHandler_lookupFirst(rs, disk, rawId, filename, token, t) ==
    LET id == parseInt(rawId)
        report == getReport(rs, id)
        found == report # NoReport
                 /\ \E i \in 1 .. Len(report.attachments) :
                        report.attachments[i].filename = filename
        res(st, msg) == [status |-> st, body |-> Err(msg), bytes |-> FALSE]
    IN
    IF isNaN(id)
    THEN res(400, "Invalid request")
    ELSE IF ~found
    THEN res(404, "File not found")
    ELSE IF token = NoToken
    THEN res(401, "Missing access token")
    ELSE IF ~verify(token, t)
    THEN res(401, "Unauthorized or expired token")
    ELSE IF ScopeMismatch(token, id, filename)
    THEN res(403, "Invalid token for this file")
    ELSE IF filename \notin disk
    THEN res(404, "Not Found")
    ELSE [status |-> 200, body |-> Err(""), bytes |-> TRUE]

\* handler of GET /reports/:id/attachment/:filename
getAttachmentHandler(rs, disk, rawId, filename, token, t) ==
    LET id == parseInt(rawId)
        report == getReport(rs, id)
        found == report # NoReport
                 /\ \E i \in 1 .. Len(report.attachments) :
                        report.attachments[i].filename = filename
        res(st, msg) == [status |-> st, body |-> Err(msg), bytes |-> FALSE]
    IN
    IF isNaN(id)
    THEN res(400, "Invalid request")
    ELSE IF token = NoToken
    THEN res(401, "Missing access token")
    ELSE IF ~verify(token, t)
    THEN res(401, "Unauthorized or expired token")
    ELSE IF ScopeMismatch(token, id, filename)
    THEN res(403, "Invalid token for this file")
    ELSE IF ~found
    THEN res(404, "File not found")
    ELSE IF filename \notin disk
    THEN res(404, "Not Found")
    ELSE [status |-> 200, body |-> Err(""), bytes |-> TRUE]

\* mutant: requireAuth is in the chain of the download route
getAttachment_requireAuth(rs, disk, authHeader, rawId, filename, token, t) ==
    IF requireAuth(authHeader, t).ok
    THEN getAttachmentHandler(rs, disk, rawId, filename, token, t)
    ELSE [status |-> 401, body |-> Unauthorized, bytes |-> FALSE]

\* the route GET /reports/:id/attachment/:filename: the handler is the whole
\* chain, no requireAuth before it, and the Authorization header is never read
getAttachment(rs, disk, authHeader, rawId, filename, token, t) ==
    getAttachmentHandler(rs, disk, rawId, filename, token, t)

\* DELETE /reports/:id as documented: requireAuth, requireRole('admin'),
\* ReportStore.deleteReport
deleteReports(rs, user, rawId) ==
    LET id == parseInt(rawId)
        gate == requireRole({"admin"}, user)
    IN
    IF ~gate.ok
    THEN [status |-> gate.status, reports |-> rs]
    ELSE IF isNaN(id)
    THEN [status |-> 400, reports |-> rs]
    ELSE IF ~deleteReport(rs, id).deleted
    THEN [status |-> 404, reports |-> rs]
    ELSE [status |-> 204, reports |-> deleteReport(rs, id).reports]

\* DELETE /reports/:id as the router has it: the route is commented out, no
\* handler matches, Express answers 404 and the repository is not touched
routerDelete(rs, user, rawId) == [status |-> 404, reports |-> rs]

(***************************************************************************)
(* The state machine.  A request is one step: the middleware chain and the *)
(* handler run to completion.  All reads of the clock inside one handler   *)
(* return the same instant.                                                *)
(***************************************************************************)
\* SpecFiles moves the clock to just before, onto and just after a token's expiry
FileJumps == {Ms(CapTTL) - 1, Ms(CapTTL), Ms(CapTTL) + 1}

\* the requests the clients of SpecFiles send
FileLoginBodies == {[id |-> "admin1", role |-> "admin"], [id |-> "", role |-> "admin"]}
FileRawIds == {RawId(1, ""), RawId(2, ""), RawId(NoDigits, "x")}
SentHeaders ==
    {[scheme |-> "none", token |-> NoToken]}
    \cup {[scheme |-> "Bearer", token |-> tk] : tk \in {x \in tokens : x.role # Absent}}

\* the outcomes of requireAuth over the Authorization headers a client can send
Sessions == {requireAuth(h, now) : h \in AuthHeaders}

Respond(op, status) == last' = [op |-> op, status |-> status]

\* the clients whose POST /reports may be in flight together, and a request in
\* flight: received (its body is being read), answered with the background log of
\* enqueueNewReport still to run, or finished (for a create answered 201: logged,
\* or failed when the background log threw); report is the id of the report the
\* request created
Clients == 1 .. MaxClients
Idle == [pc |-> "idle", header |-> [scheme |-> "none", token |-> NoToken],
         body |-> Body(Absent, Absent, Absent, FALSE), status |-> 0,
         report |-> Undefined]
ConcurrentBodies ==
    {Body("bug", "d1", Absent, FALSE), Body("Bug", "d1", Absent, FALSE),
     Body("crash", "d1", Absent, FALSE)}

Init ==
    /\ reports = <<>>
    /\ nextId = 1
    /\ auditLogs = <<>>
    /\ now = 0
    /\ ticks = 0
    /\ tokens = {}
    /\ uploads = {}
    /\ nextFile = 1
    /\ assigned = <<>>
    /\ last = [op |-> "start", status |-> 0]
    /\ inflight = [c \in Clients |-> Idle]

\* time passes between two requests
Tick(jumps, maxTicks) ==
    \E d \in jumps :
        /\ ticks < maxTicks
        /\ now' = now + d
        /\ ticks' = ticks + 1
        /\ UNCHANGED <<reports, nextId, auditLogs, tokens, uploads, nextFile,
                       assigned, last, inflight>>

Login(bodies) ==
    \E body \in bodies :
        LET r == login(body, now) IN
        /\ Cardinality({tk \in tokens \cup r.minted : tk.role # Absent}) <= MaxSessions
        /\ tokens' = tokens \cup r.minted
        /\ Respond("login", r.status)
        /\ UNCHANGED <<reports, nextId, auditLogs, now, ticks, uploads, nextFile,
                       assigned, inflight>>

PostReports(bodies) ==
    \E a \in Sessions :
        /\ nextId <= MaxId
        /\ IF a.ok
           THEN \E body \in bodies :
                    LET r == postReports(reports, nextId, body, now) IN
                    /\ reports' = r.reports
                    /\ nextId' = r.nextId
                    /\ assigned' = IF r.status = 201 THEN Append(assigned, r.body.id)
                                   ELSE assigned
                    /\ Respond("create", r.status)
           ELSE /\ UNCHANGED <<reports, nextId, assigned>>
                /\ Respond("create", a.status)
        /\ UNCHANGED <<auditLogs, now, ticks, tokens, uploads, nextFile, inflight>>

PutReportsOf(rawIds, bodies, maxAudit) ==
    \E a \in Sessions :
        /\ IF a.ok
           THEN \E rawId \in rawIds, body \in bodies :
                    LET r == putReport(reports, auditLogs, a.user, rawId, body,
                                       now, now)
                    IN
                    /\ Len(r.auditLogs) <= maxAudit
                    /\ reports' = r.reports
                    /\ auditLogs' = r.auditLogs
                    /\ Respond("update", r.status)
           ELSE /\ UNCHANGED <<reports, auditLogs>>
                /\ Respond("update", a.status)
        /\ UNCHANGED <<nextId, now, ticks, tokens, uploads, nextFile, assigned,
                       inflight>>

PostAttachment ==
    \E a \in Sessions :
        /\ nextFile <= MaxFiles
        /\ IF a.ok
           THEN \E rawId \in FileRawIds, up \in Uploads :
                    LET r == postAttachment(reports, uploads, rawId, up, nextFile,
                                            now, now)
                    IN
                    /\ reports' = r.reports
                    /\ uploads' = r.uploads
                    /\ tokens' = tokens \cup r.minted
                    /\ nextFile' = IF up.hasFile THEN nextFile + 1 ELSE nextFile
                    /\ Respond("upload", r.status)
           ELSE /\ UNCHANGED <<reports, uploads, tokens, nextFile>>
                /\ Respond("upload", a.status)
        /\ UNCHANGED <<nextId, auditLogs, now, ticks, assigned, inflight>>

\* mutant: a token that was served is withdrawn (single use)
GetAttachment_singleUse ==
    \E h \in SentHeaders, rawId \in FileRawIds, f \in 1 .. MaxFiles,
       tk \in QueryTokens :
        LET r == getAttachment(reports, uploads, h, rawId, f, tk, now) IN
        /\ Respond("download", r.status)
        /\ tokens' = IF r.status = 200 THEN tokens \ {tk} ELSE tokens
        /\ UNCHANGED <<reports, nextId, auditLogs, now, ticks, uploads,
                       nextFile, assigned, inflight>>

GetAttachment ==
    \E h \in SentHeaders, rawId \in FileRawIds, f \in 1 .. MaxFiles,
       tk \in QueryTokens :
        LET r == getAttachment(reports, uploads, h, rawId, f, tk, now) IN
        /\ Respond("download", r.status)
        /\ UNCHANGED <<reports, nextId, auditLogs, now, ticks, tokens, uploads,
                       nextFile, assigned, inflight>>

DeleteReports ==
    \E a \in Sessions :
        /\ IF a.ok
           THEN \E rawId \in RawIds :
                    LET r == deleteReports(reports, a.user, rawId) IN
                    /\ reports' = r.reports
                    /\ Respond("delete", r.status)
           ELSE /\ UNCHANGED reports
                /\ Respond("delete", a.status)
        /\ UNCHANGED <<nextId, auditLogs, now, ticks, tokens, uploads, nextFile,
                       assigned, inflight>>

PutReports == PutReportsOf(RawIds, SentUpdates, MaxAudit)

GetReports(queries) ==
    \E a \in Sessions :
        /\ IF a.ok
           THEN \E rawId \in FileRawIds, query \in queries :
                    LET r == getReports(reports, rawId, query) IN
                    /\ reports' = r.reports
                    /\ Respond("get", r.status)
           ELSE /\ UNCHANGED reports
                /\ Respond("get", a.status)
        /\ UNCHANGED <<nextId, auditLogs, now, ticks, tokens, uploads, nextFile,
                       assigned, inflight>>

PostEntries ==
    \E a \in Sessions :
        /\ IF a.ok
           THEN \E rawId \in FileRawIds, comment \in Comments :
                    LET r == postEntries(reports, a.user, rawId, comment, now) IN
                    /\ \A i \in 1 .. Len(r.reports) :
                           Len(r.reports[i].entries) <= MaxEntries
                    /\ reports' = r.reports
                    /\ Respond("entry", r.status)
           ELSE /\ UNCHANGED reports
                /\ Respond("entry", a.status)
        /\ UNCHANGED <<nextId, auditLogs, now, ticks, tokens, uploads, nextFile,
                       assigned, inflight>>

\* a POST /reports arrives: express.json() reads the body off the socket, and
\* other requests can be served meanwhile
SendCreate ==
    \E c \in Clients, h \in SentHeaders, body \in ConcurrentBodies :
        /\ inflight[c].pc = "idle"
        /\ inflight' = [inflight EXCEPT ![c] = [pc |-> "sent", header |-> h,
                                                body |-> body, status |-> 0,
                                                report |-> Undefined]]
        /\ UNCHANGED <<reports, nextId, auditLogs, now, ticks, tokens, uploads,
                       nextFile, assigned, last>>

\* requireAuth and the handler of POST /reports run to completion in one turn of
\* the event loop: there is no await from safeParse to res.status(201).json
HandleCreate ==
    \E c \in Clients :
        LET a == requireAuth(inflight[c].header, now)
            r == postReports(reports, nextId, inflight[c].body, now)
        IN
        /\ inflight[c].pc = "sent"
        /\ IF a.ok
           THEN /\ reports' = r.reports
                /\ nextId' = r.nextId
                /\ assigned' = IF r.status = 201 THEN Append(assigned, r.body.id)
                               ELSE assigned
                /\ inflight' = [inflight EXCEPT
                                   ![c].pc = IF r.status = 201 THEN "logging"
                                             ELSE "done",
                                   ![c].status = r.status,
                                   ![c].report = IF r.status = 201 THEN r.body.id
                                                 ELSE Undefined]
                /\ Respond("create", r.status)
           ELSE /\ UNCHANGED <<reports, nextId, assigned>>
                /\ inflight' = [inflight EXCEPT ![c].pc = "done",
                                                ![c].status = a.status]
                /\ Respond("create", a.status)
        /\ UNCHANGED <<auditLogs, now, ticks, tokens, uploads, nextFile>>

\* the rest of enqueueNewReport after its await, run in a later turn of the
\* event loop: console.log returns or throws, and the catch logs what was thrown
LogCreate ==
    \E c \in Clients, outcome \in LogOutcomes :
        /\ inflight[c].pc = "logging"
        /\ reports' = enqueueNewReport(reports, inflight[c].report, outcome)
        /\ inflight' = [inflight EXCEPT ![c].pc = outcome]
        /\ UNCHANGED <<nextId, auditLogs, now, ticks, tokens, uploads,
                       nextFile, assigned, last>>

\* reports, updates and deletes
Next ==
    \/ Tick({1}, MaxTicks)
    \/ Login(LoginBodies)
    \/ PostReports(CreateBodies)
    \/ PutReports
    \/ DeleteReports

Spec == Init /\ [][Next]_vars

\* attachments and their signed download URLs
NextFiles ==
    \/ Tick(FileJumps, MaxFileTicks)
    \/ Login(FileLoginBodies)
    \/ PostReports(FileReportBodies)
    \/ PostAttachment
    \/ GetAttachment
    \/ DeleteReports

SpecFiles == Init /\ [][NextFiles]_vars

\* SpecSessions moves the clock to a session token's expiry, from a login at a
\* whole second and from one inside a second
SessionJumps == {999, Ms(SessionTTL) - 999, Ms(SessionTTL), Ms(SessionTTL) + 1}
SessionUpdates == {Body("crash", Absent, Absent, FALSE)}

\* sessions and their expiry
NextSessions ==
    \/ Tick(SessionJumps, MaxSessionTicks)
    \/ Login(LoginBodies)
    \/ PostReports(FileReportBodies)
    \/ PutReportsOf(FileRawIds, SessionUpdates, MaxAudit)
    \/ GetReports({Query(Absent, Absent, NoParam, NoParam)})
    \/ DeleteReports

SpecSessions == Init /\ [][NextSessions]_vars

\* the audit log over several updates
AuditUpdates ==
    {Body("crash", Absent, Absent, FALSE), Body(Absent, "d2", "high", FALSE),
     Body(Absent, Absent, "critical", FALSE)}

NextAudit ==
    \/ Tick({1}, MaxTicks)
    \/ Login(LoginBodies)
    \/ PostReports(FileReportBodies)
    \/ PutReportsOf(FileRawIds, AuditUpdates, MaxLog)
    \/ DeleteReports

SpecAudit == Init /\ [][NextAudit]_vars

\* creates in flight together
NextCreate ==
    \/ Login(FileLoginBodies)
    \/ SendCreate
    \/ HandleCreate
    \/ LogCreate

SpecCreate == Init /\ [][NextCreate]_vars

\* entries and attachments of a report, and reading them
ChildQueries ==
    {Query(i, o, p, ps) : i \in {Absent, "entries"}, o \in {Absent, "asc"},
                          p \in {NoParam, RawId(0, ""), RawId(1, "")},
                          ps \in {NoParam, RawId(1, "")}}

NextChildren ==
    \/ Tick({1}, MaxTicks)
    \/ Login(FileLoginBodies)
    \/ PostReports({Body("bug", "d1", Absent, FALSE)})
    \/ PostAttachment
    \/ PostEntries
    \/ GetReports(ChildQueries)
    \/ DeleteReports

SpecChildren == Init /\ [][NextChildren]_vars

\* updates among the other operations on a report
PartialUpdates ==
    {Body(Absent, "d2", Absent, FALSE), Body("Bug", Absent, "high", FALSE)}

NextUpdates ==
    \/ Tick({1}, MaxTicks)
    \/ Login(FileLoginBodies)
    \/ PostReports(FileReportBodies)
    \/ PutReportsOf(FileRawIds, PartialUpdates, MaxAudit)
    \/ GetReports({Query(Absent, Absent, NoParam, NoParam)})
    \/ PostAttachment
    \/ GetAttachment

SpecUpdates == Init /\ [][NextUpdates]_vars

\* a caller inside the process uses ReportStore directly, without the routes
StoreData ==
    {[title |-> t, description |-> "d1", severity |-> "low"] : t \in Titles}
StoreUpdates ==
    {[title |-> "Bug", description |-> Absent, severity |-> Absent],
     [title |-> Absent, description |-> "d2", severity |-> "high"]}

AddReport ==
    \E data \in StoreData :
        LET r == addReport(reports, nextId, data, now) IN
        /\ nextId <= MaxId
        /\ reports' = r.reports
        /\ nextId' = r.nextId
        /\ assigned' = Append(assigned, r.report.id)
        /\ Respond("addReport", 0)
        /\ UNCHANGED <<auditLogs, now, ticks, tokens, uploads, nextFile, inflight>>

UpdateReport ==
    \E id \in 1 .. MaxId + 1, updates \in StoreUpdates :
        LET r == updateReport(reports, id, updates, now) IN
        /\ reports' = r.reports
        /\ Respond("updateReport", IF r.found THEN 1 ELSE 0)
        /\ UNCHANGED <<nextId, auditLogs, now, ticks, tokens, uploads, nextFile,
                       assigned, inflight>>

DeleteReport ==
    \E id \in 1 .. MaxId + 1 :
        LET r == deleteReport(reports, id) IN
        /\ reports' = r.reports
        /\ Respond("deleteReport", IF r.deleted THEN 1 ELSE 0)
        /\ UNCHANGED <<nextId, auditLogs, now, ticks, tokens, uploads, nextFile,
                       assigned, inflight>>

NextStore ==
    \/ Tick({1}, MaxTicks)
    \/ AddReport
    \/ UpdateReport

SpecStore == Init /\ [][NextStore]_vars

\* downloads after ReportStore.deleteReport has removed a report
NextDeleted ==
    \/ Tick(FileJumps, MaxFileTicks)
    \/ Login(FileLoginBodies)
    \/ PostReports(FileReportBodies)
    \/ PostAttachment
    \/ GetAttachment
    \/ DeleteReport

SpecDeleted == Init /\ [][NextDeleted]_vars

\* the history of a report: created, updated several times, given attachments
NextHistory ==
    \/ Tick({1}, MaxTicks)
    \/ Login(FileLoginBodies)
    \/ PostReports(FileReportBodies)
    \/ PutReportsOf(FileRawIds, PartialUpdates, MaxLog)
    \/ PostAttachment

SpecHistory == Init /\ [][NextHistory]_vars

(***************************************************************************)
(* Properties.  A statement about every request is checked by applying the *)
(* handler to every request in every reachable state.                      *)
(***************************************************************************)
Admin == [set |-> TRUE, id |-> "admin1", role |-> "admin"]
Developer == [set |-> TRUE, id |-> "dev1", role |-> "developer"]
Callers == {Admin, Developer}

Path(id) == RawId(id, "")
SameIgnoringCase(a, b) == toLowerCase(a) = toLowerCase(b)
Ids(seq) == {seq[k] : k \in 1 .. Len(seq)}
Stored == 1 .. Len(reports)

\* C1: the ids assigned by create are strictly increasing and never repeat, also
\* after the report holding an id was deleted, and no two stored reports share an
\* id; the id the next create would assign is larger than every id assigned so far.
C1_IdsStrictlyIncreasing ==
    /\ \A i, j \in 1 .. Len(assigned) : i < j => assigned[i] < assigned[j]
    /\ \A i, j \in Stored : i # j => reports[i].id # reports[j].id
    /\ \A i \in Stored : reports[i].id \in Ids(assigned)
    /\ \A body \in CreateBodies :
           LET r == postReports(reports, nextId, body, now) IN
           r.status = 201 => \A k \in 1 .. Len(assigned) : assigned[k] < r.body.id

\* a create answered 201 after an earlier report was deleted
C1_Witness ==
    /\ last = [op |-> "create", status |-> 201]
    /\ Len(assigned) = 2
    /\ Len(reports) = 1

\* C2: no two stored reports have titles equal ignoring case; a create whose title
\* matches a stored title ignoring case is answered 409 and stores nothing; an
\* update whose new title matches a different stored report's title is answered
\* 409; an update of a report to its own title in any letter case is no conflict.
C2_TitlesUniqueIgnoringCase ==
    /\ \A i, j \in Stored :
           i # j => ~SameIgnoringCase(reports[i].title, reports[j].title)
    /\ \A body \in CreateBodies :
           LET r == postReports(reports, nextId, body, now) IN
           (/\ NewReportSchema(body)
            /\ \E i \in Stored : SameIgnoringCase(reports[i].title, body.title))
           => r.status = 409 /\ r.reports = reports /\ r.nextId = nextId
    /\ \A u \in Callers, i \in Stored, body \in UpdateBodies :
           LET r == putReport(reports, auditLogs, u, Path(reports[i].id), body,
                              now, now)
           IN
           (UpdateReportSchema(body) /\ body.title # Absent) =>
               /\ (\E j \in Stored :
                       j # i /\ SameIgnoringCase(reports[j].title, body.title))
                  => r.status = 409 /\ r.reports = reports /\ r.auditLogs = auditLogs
               /\ SameIgnoringCase(reports[i].title, body.title) => r.status # 409

\* a create refused with 409 while a report is stored
C2_Witness ==
    /\ last = [op |-> "create", status |-> 409]
    /\ Len(reports) >= 1

EscalationMessage == Err("Only admins can escalate severity to critical")
LastEntry(logs) == logs[Len(logs)]

\* what the claim says of an escalation to critical by a developer and by an admin
EscalationOutcome(i, body) ==
    LET id == reports[i].id
        dev == putReport(reports, auditLogs, Developer, Path(id), body, now, now)
        adm == putReport(reports, auditLogs, Admin, Path(id), body, now, now)
    IN
    /\ dev.status = 403
    /\ dev.body = EscalationMessage
    /\ dev.reports = reports
    /\ dev.auditLogs = auditLogs
    /\ adm.status = 200
    /\ getReport(adm.reports, id).severity = "critical"
    /\ Len(adm.auditLogs) = Len(auditLogs) + 1
    /\ SubSeq(adm.auditLogs, 1, Len(auditLogs)) = auditLogs
    /\ "severity" \in DOMAIN LastEntry(adm.auditLogs).changes
    /\ LastEntry(adm.auditLogs).changes["severity"]
           = <<reports[i].severity, "critical">>

\* C3 as stated: every valid update with severity = critical on a report that is
\* not critical is answered 403 for a developer and applied for an admin.
C3_Original ==
    \A i \in Stored, body \in UpdateBodies :
        (/\ UpdateReportSchema(body)
         /\ body.severity = "critical"
         /\ reports[i].severity # "critical")
        => EscalationOutcome(i, body)

\* C3 amended: the same, for the updates whose title, when supplied, equals no
\* other stored report's title ignoring case (a collision is answered 409 for
\* either role before the escalation rule is looked at).
C3_EscalationGate ==
    \A i \in Stored, body \in UpdateBodies :
        (/\ UpdateReportSchema(body)
         /\ body.severity = "critical"
         /\ reports[i].severity # "critical"
         /\ body.title # Absent =>
                ~\E j \in Stored :
                     j # i /\ SameIgnoringCase(reports[j].title, body.title))
        => EscalationOutcome(i, body)

\* a developer's escalation was refused while no stored report is critical
C3_Witness ==
    /\ last = [op |-> "update", status |-> 403]
    /\ Len(reports) = 2
    /\ \A i \in Stored : reports[i].severity # "critical"

\* C4: severity = critical sent for a report that is already critical succeeds for
\* either role, appends no audit record and leaves the report unchanged.
C4_ResubmitCritical ==
    \A u \in Callers, i \in Stored :
        LET r == putReport(reports, auditLogs, u, Path(reports[i].id),
                           Body(Absent, Absent, "critical", FALSE), now, now)
        IN
        reports[i].severity = "critical"
        => r.status = 200 /\ r.reports = reports /\ r.auditLogs = auditLogs

\* every supplied field of the body equals the stored value
SameAsStored(report, body) ==
    /\ ~EmptyBody(body)
    /\ \A f \in UpdateFields : body[f] = Absent \/ body[f] = report[f]

RecordsOf(id, f) ==
    {k \in 1 .. Len(auditLogs) :
         auditLogs[k].reportId = id /\ f \in DOMAIN auditLogs[k].changes}
Newest(ks) == CHOOSE k \in ks : \A m \in ks : m <= k

\* C6: an update either changes no field and appends no record, or it appends
\* exactly one record whose changes are exactly the fields whose value changed,
\* each with (value before, value after), with the report's id and the caller's
\* id, while the report carries the new values and updatedAt is set to the time of
\* the update; in every state the newest record of a field agrees with the report.
C6_AtomicUpdate ==
    /\ \A u \in Callers, i \in Stored, body \in UpdateBodies :
           LET id == reports[i].id
               r == putReport(reports, auditLogs, u, Path(id), body, now, now)
               after == r.reports[i]
               diff == {f \in UpdateFields : reports[i][f] # after[f]}
           IN
           /\ Len(r.reports) = Len(reports)
           /\ \A j \in Stored : j # i => r.reports[j] = reports[j]
           /\ IF diff = {}
              THEN r.reports = reports /\ r.auditLogs = auditLogs
              ELSE /\ r.status = 200
                   /\ Len(r.auditLogs) = Len(auditLogs) + 1
                   /\ SubSeq(r.auditLogs, 1, Len(auditLogs)) = auditLogs
                   /\ LastEntry(r.auditLogs).reportId = id
                   /\ LastEntry(r.auditLogs).userId = u.id
                   /\ LastEntry(r.auditLogs).changes
                          = [f \in diff |-> <<reports[i][f], after[f]>>]
                   /\ \A f \in diff : after[f] = body[f]
                   /\ after.updatedAt = now
                   /\ after = [reports[i] EXCEPT !.title = after.title,
                                                 !.description = after.description,
                                                 !.severity = after.severity,
                                                 !.updatedAt = now]
    /\ \A k \in 1 .. Len(auditLogs) :
           /\ DOMAIN auditLogs[k].changes # {}
           /\ \A f \in DOMAIN auditLogs[k].changes :
                  auditLogs[k].changes[f][1] # auditLogs[k].changes[f][2]
    /\ \A i \in Stored, f \in UpdateFields :
           RecordsOf(reports[i].id, f) # {} =>
               LET e == auditLogs[Newest(RecordsOf(reports[i].id, f))] IN
               /\ e.changes[f][2] = reports[i][f]
               /\ e.timestamp <= reports[i].updatedAt

\* an update that changed two fields or more was applied and recorded
C6_Witness ==
    /\ last = [op |-> "update", status |-> 200]
    /\ Len(auditLogs) = 1
    /\ Cardinality(DOMAIN auditLogs[1].changes) >= 2
    /\ \E i \in Stored : reports[i].createdAt < reports[i].updatedAt

(***************************************************************************)
(* Properties of the signed download URLs, checked under SpecFiles.        *)
(***************************************************************************)
\* the capability tokens minted so far, and those of them that are unexpired
CapTokens == {tk \in tokens : tk.reportId # Undefined}
Unexpired(tk) == now < Ms(tk.exp)
NoHeader == [scheme |-> "none", token |-> NoToken]
NumericPaths == {raw \in RawIds : raw.num # NoDigits}
FileNames == 1 .. MaxFiles + 1
HasAttachment(id, f) ==
    \E i \in Stored :
        /\ reports[i].id = id
        /\ \E k \in 1 .. Len(reports[i].attachments) :
               reports[i].attachments[k].filename = f
Download(h, raw, f, tk) == getAttachment(reports, uploads, h, raw, f, tk, now)

\* C7: an unexpired capability token minted for (r, f), presented for a path
\* naming (r', f') with r' # r or f' # f, is answered 403, whether or not (r', f')
\* exists; on every path, whatever its id segment, file bytes are only sent for
\* the pair the token names.
C7_ExactPair ==
    \A raw \in RawIds, f \in FileNames, tk \in QueryTokens :
        LET r == Download(NoHeader, raw, f, tk) IN
        /\ (/\ raw \in NumericPaths
            /\ tk \in CapTokens
            /\ Unexpired(tk)
            /\ (parseInt(raw) # tk.reportId \/ f # tk.file))
           => r.status = 403
        /\ r.bytes => tk \in CapTokens /\ tk.reportId = parseInt(raw) /\ tk.file = f

\* a download was answered 403 while an unexpired token of one attachment is
\* refused for another attachment that exists
C7_Witness ==
    /\ last = [op |-> "download", status |-> 403]
    /\ \E tk \in CapTokens, f \in FileNames :
           /\ Unexpired(tk)
           /\ f # tk.file
           /\ HasAttachment(tk.reportId, f)
           /\ f \in uploads
           /\ Download(NoHeader, Path(tk.reportId), f, tk).status = 403

\* C8: once more than CapTTL has passed since the upload that minted it, a
\* capability token is answered 401 on every download, also for its own path while
\* the attachment exists; a token whose expiry has been reached is never accepted.
C8_ExpiredRejected ==
    /\ \A i \in Stored, tk \in CapTokens :
           \A k \in 1 .. Len(reports[i].attachments) :
               LET att == reports[i].attachments[k] IN
               (/\ tk.reportId = reports[i].id
                /\ tk.file = att.filename
                /\ now > att.uploadedAt + Ms(CapTTL))
               => LET r == Download(NoHeader, Path(reports[i].id), att.filename, tk)
                  IN  r.status = 401 /\ ~r.bytes
    /\ \A raw \in NumericPaths, f \in FileNames, tk \in CapTokens :
           ~Unexpired(tk) => Download(NoHeader, raw, f, tk).status = 401
    /\ \A tk \in CapTokens : tk.exp = tk.iat + CapTTL

\* a download was answered 401 while the token of a stored attachment, whose file
\* is on disk, is older than CapTTL
C8_Witness ==
    /\ last = [op |-> "download", status |-> 401]
    /\ \E i \in Stored, tk \in CapTokens :
           \E k \in 1 .. Len(reports[i].attachments) :
               /\ tk.reportId = reports[i].id
               /\ tk.file = reports[i].attachments[k].filename
               /\ tk.file \in uploads
               /\ now > reports[i].attachments[k].uploadedAt + Ms(CapTTL)

\* the order of the download checks on the paths drawn from ids
CheckOrder(ids) ==
    \A raw \in ids, f \in FileNames, tk \in QueryTokens :
        LET r == Download(NoHeader, raw, f, tk)
            valid == tk \in tokens /\ Unexpired(tk)
            match == tk.reportId = parseInt(raw) /\ tk.file = f
        IN
        /\ ~valid => r.status = 401
        /\ (valid /\ ~match) => r.status = 403
        /\ r.status = 404 => valid /\ match

\* C9 as stated: on every download path, a request whose token is missing, forged,
\* malformed or expired is answered 401 and one with a valid token scoped
\* elsewhere is answered 403.
C9_Original == CheckOrder(RawIds)

\* C9: on a path whose id segment starts with digits, a download whose token is
\* missing, forged, malformed or expired is answered 401 whether or not the report
\* or the attachment exists; one with a valid token scoped elsewhere is answered
\* 403 whether or not they exist; 404 is only sent to the holder of a valid token
\* whose claims match the path. A path whose id has no leading digits is answered
\* 400 before the token is read.
C9_CheckOrder ==
    /\ CheckOrder(NumericPaths)
    /\ \A raw \in RawIds \ NumericPaths, f \in FileNames, tk \in QueryTokens :
           Download(NoHeader, raw, f, tk).status = 400

\* a download was answered 401 for want of a valid token although every minted
\* token is unexpired and an attachment with its file exists
C9_Witness ==
    /\ last = [op |-> "download", status |-> 401]
    /\ \A tk \in tokens : Unexpired(tk)
    /\ \E tk \in CapTokens : HasAttachment(tk.reportId, tk.file) /\ tk.file \in uploads

\* the Authorization headers of the statement: none, not a Bearer one, an invalid
\* token, a valid developer session and a valid admin session
ClaimHeaders ==
    AuthHeaders
    \cup {[scheme |-> "Bearer", token |-> sign(AuthPayload(u.id, u.role), SessionTTL, now)] :
             u \in Callers}

\* C10: two download requests that differ only in their Authorization header get
\* the same response.
C10_HeaderIrrelevant ==
    \A h \in ClaimHeaders, raw \in FileRawIds, f \in FileNames, tk \in QueryTokens :
        Download(h, raw, f, tk) = Download(NoHeader, raw, f, tk)

\* file bytes were sent to a download
C10_Witness ==
    /\ last = [op |-> "download", status |-> 200]
    /\ \E tk \in CapTokens :
           Download(NoHeader, Path(tk.reportId), tk.file, tk).bytes

(***************************************************************************)
(* Properties of authentication, checked under SpecSessions.               *)
(***************************************************************************)
\* the operations whose route has requireAuth in its chain
AuthenticatedOps == {"create", "update", "get", "delete", "upload", "entry"}

\* a header that is missing, has no Bearer prefix, or carries a token that was not
\* issued by this server (bad signature, malformed) or that has expired
BadHeader(h) ==
    h.scheme # "Bearer" \/ h.token \notin tokens \/ ~Unexpired(h.token)

Denied(h) ==
    requireAuth(h, now) = [ok |-> FALSE, status |-> 401,
                           body |-> [error |-> "Unauthorized"], user |-> NoUser]

\* a step that answers an authenticated operation with 401 runs no handler
HandlerNotRun ==
    (last'.op \in AuthenticatedOps /\ last'.status = 401)
    => UNCHANGED <<reports, nextId, auditLogs, tokens, uploads, nextFile, assigned>>

\* C11: a request with a missing Authorization header, one without the Bearer
\* prefix, a token with a bad signature or malformed, or an expired token gets the
\* identical outcome 401 {error: 'Unauthorized'} with next() not called, and a
\* step answering 401 leaves the repository, the audit log, the tokens and the
\* stored files as they were.
C11_SameUnauthorized ==
    /\ [](\A h \in AuthHeaders : BadHeader(h) => Denied(h))
    /\ [][HandlerNotRun]_vars

\* an update was answered 401 while a report is stored and the session token that
\* was issued has expired
C11_Witness ==
    /\ last = [op |-> "update", status |-> 401]
    /\ reports # <<>>
    /\ \E tk \in tokens : ~Unexpired(tk)

\* the session tokens issued so far
SessionTokens == {tk \in tokens : tk.role # Absent}
Bearer(tk) == [scheme |-> "Bearer", token |-> tk]

\* tokens change only by a successful login, which adds one and touches no other
NoRenewal ==
    /\ tokens \subseteq tokens'
    /\ SessionTokens' # SessionTokens
       => last' = [op |-> "login", status |-> 200]

\* C12: a session token issued by login at t (iat the second of t, exp one hour
\* later) authenticates with the (id, role) given at login as long as the clock's
\* second is before exp, is answered 401 from t + 1 hour on, and no request other
\* than a login changes the tokens or their expiry.
C12_SessionLifetime ==
    /\ [](/\ \A body \in LoginBodies :
                \A tk \in login(body, now).minted :
                    /\ tk.iat = Sec(now) /\ tk.exp = tk.iat + SessionTTL
                    /\ requireAuth(Bearer(tk), now).user
                         = [set |-> TRUE, id |-> body.id, role |-> body.role]
          /\ \A tk \in SessionTokens :
                /\ tk.exp = tk.iat + SessionTTL
                /\ now < Ms(tk.iat) + Ms(SessionTTL)
                   => /\ requireAuth(Bearer(tk), now).ok
                      /\ requireAuth(Bearer(tk), now).user
                           = [set |-> TRUE, id |-> tk.id, role |-> tk.role]
                /\ now >= Ms(tk.iat) + Ms(SessionTTL)
                   => Denied(Bearer(tk)))
    /\ [][NoRenewal]_vars

\* a read was answered 401 at the very millisecond the hour of the issued session
\* token has passed, with a report stored
C12_Witness ==
    /\ last = [op |-> "get", status |-> 401]
    /\ reports # <<>>
    /\ \E tk \in SessionTokens : now = Ms(tk.iat) + Ms(SessionTTL)

(***************************************************************************)
(* Properties of delete, checked under Spec.                               *)
(***************************************************************************)
PlainQueries == {Query(i, Absent, NoParam, NoParam) : i \in {Absent, "entries"}}
Gone(rs, id) ==
    /\ getReport(rs, id) = NoReport
    /\ \A query \in PlainQueries : getReports(rs, Path(id), query).status = 404

\* the statement about a delete operation del: by a developer 403 and the
\* repository as it was; by an admin the report and no other is removed, and a get
\* of its id is answered 404
DeleteAdminOnly(del(_, _, _)) ==
    \A i \in Stored :
        LET id == reports[i].id
            dev == del(reports, Developer, Path(id))
            adm == del(reports, Admin, Path(id))
        IN
        /\ dev.status = 403 /\ dev.reports = reports
        /\ adm.reports = SubSeq(reports, 1, i - 1) \o SubSeq(reports, i + 1, Len(reports))
        /\ Gone(adm.reports, id)

\* C13: a DELETE /reports/:id of a stored report by a developer is answered 403
\* and the report stays; by an admin it removes the report, so that a get of that
\* id is answered 404.  Stated of the routes the router registers.
C13_DeleteAdminOnly == DeleteAdminOnly(routerDelete)

(***************************************************************************)
(* Properties of creates in flight together, checked under SpecCreate.     *)
(***************************************************************************)
\* the requests that got past requireAuth and the schema, and were answered
Answered == {c \in Clients : inflight[c].status \in {201, 409}}
SameTitle(c, d) == SameIgnoringCase(inflight[c].body.title, inflight[d].body.title)

\* C14: of the create requests with one title (ignoring case) that were in flight
\* together, in whatever order their handlers ran, exactly one was answered 201 and
\* every other 409, and exactly one report with that title is stored.
C14_OneCreateWins ==
    \A c \in Answered :
        /\ Cardinality({d \in Answered : SameTitle(c, d) /\ inflight[d].status = 201}) = 1
        /\ Cardinality({i \in Stored :
                           SameIgnoringCase(reports[i].title, inflight[c].body.title)}) = 1
        /\ Cardinality(Ids(assigned)) = Len(assigned)

\* two creates whose titles differ in case only were in flight together: one was
\* answered 409 by a handler that ran while the background log of the other, which
\* was answered 201, was still to run
C14_Witness ==
    \E c, d \in Clients :
        /\ inflight[c].pc = "logging" /\ inflight[c].status = 201
        /\ inflight[d].pc = "done" /\ inflight[d].status = 409
        /\ inflight[c].body.title # inflight[d].body.title
        /\ SameTitle(c, d)

(***************************************************************************)
(* Properties of upload, checked under SpecFiles.                          *)
(***************************************************************************)
WithFile == [hasFile |-> TRUE, mimetype |-> "text/plain"]
Upload(raw, up) == postAttachment(reports, uploads, raw, up, nextFile, now, now)

\* C15: an upload of a file to a stored report r appends exactly one Attachment to
\* r and to no other report, and mints exactly one capability token, with the
\* claims (r, filename of that attachment) and a TTL of CapTTL, returned in
\* downloadUrl; that URL requested at once passes the three download checks; and
\* no token exists whose attachment was not appended to its report.
C15_UploadMintsOne ==
    /\ \A i \in Stored :
           LET id == reports[i].id
               r == Upload(Path(id), WithFile)
               url == r.body.downloadUrl
               appended == r.reports[i].attachments[Len(r.reports[i].attachments)]
           IN
           /\ r.status = 200
           /\ r.reports[i].attachments = Append(reports[i].attachments, appended)
           /\ appended.filename = nextFile
           /\ \A j \in Stored : j # i => r.reports[j] = reports[j]
           /\ Cardinality(r.minted) = 1
           /\ \A tk \in r.minted :
                  /\ tk.reportId = id /\ tk.file = appended.filename
                  /\ tk.iat = Sec(now) /\ tk.exp = tk.iat + CapTTL
                  /\ url = [id |-> id, filename |-> appended.filename, token |-> tk]
           /\ LET d == getAttachment(r.reports, r.uploads, NoHeader, Path(url.id),
                                     url.filename, url.token, now)
              IN  d.status = 200 /\ d.bytes
    /\ \A tk \in CapTokens :
           /\ (\E i \in Stored : reports[i].id = tk.reportId)
              => HasAttachment(tk.reportId, tk.file)
           /\ \A other \in CapTokens : other.file = tk.file => other = tk

\* an upload was answered 200 and the token of an attachment of a report that has
\* two attachments downloads its file
C15_Witness ==
    /\ last = [op |-> "upload", status |-> 200]
    /\ \E i \in Stored, tk \in CapTokens :
           /\ Len(reports[i].attachments) = 2
           /\ tk.reportId = reports[i].id
           /\ tk.file = reports[i].attachments[2].filename
           /\ Download(NoHeader, Path(tk.reportId), tk.file, tk).bytes

C17_DefensiveViews ==
    \A i \in Stored, title \in Titles :
        LET after == assignField(reports, reports[i].id, "title", title) IN
        /\ getReport(after, reports[i].id) = getReport(reports, reports[i].id)
        /\ getAllReports(after) = getAllReports(reports)

(***************************************************************************)
(* Properties of reading a report with its entries, checked under          *)
(* SpecChildren.                                                           *)
(***************************************************************************)
\* a page or pageSize that is supplied and is not a number or is less than 1
InvalidParam(raw) ==
    raw # NoParam /\ (raw.num = NoDigits \/ parseInt(raw) < 1)

\* C18: a GET /reports/:id?include=entries of a stored report whose page or
\* pageSize is supplied and is less than 1 (0 included) or not a number is
\* answered 400, whether the other parameter is supplied or not.
C18_InvalidPagingRejected ==
    \A i \in Stored, query \in Queries :
        (query.include = "entries"
         /\ (InvalidParam(query.page) \/ InvalidParam(query.pageSize)))
        => getReports(reports, Path(reports[i].id), query).status = 400

IsPrefix(a, b) == Len(a) <= Len(b) /\ SubSeq(b, 1, Len(a)) = a

\* in one step, the children of every report that stays stored only grow at the end
ChildrenAppended ==
    \A i \in 1 .. Len(reports), j \in 1 .. Len(reports') :
        reports[i].id = reports'[j].id
        => /\ IsPrefix(reports[i].attachments, reports'[j].attachments)
           /\ IsPrefix(reports[i].entries, reports'[j].entries)

\* C19: for every report and every step in which it stays stored, its attachments
\* before the step are a prefix of its attachments after it, element for element,
\* and so are its entries: no operation edits, reorders or removes one.
C19_ChildrenAppendOnly == [][ChildrenAppended]_vars

\* a second file was uploaded, at a later time, to a report that had an attachment
C19_Witness ==
    /\ last = [op |-> "upload", status |-> 200]
    /\ \E i \in Stored :
           /\ Len(reports[i].attachments) = 2
           /\ reports[i].attachments[1].uploadedAt < reports[i].attachments[2].uploadedAt

(***************************************************************************)
(* Properties of the audit log, checked under SpecAudit.                   *)
(***************************************************************************)
\* C20: in every step the audit log before the step is a prefix of the log after
\* it: every record stays at its position with the same reportId, userId, changes
\* and timestamp, also when its report is updated again or deleted, and the log
\* never gets shorter.
C20_AuditAppendOnly == [][IsPrefix(auditLogs, auditLogs')]_vars

\* a second update of one report was recorded after its first, at a later time
C20_Witness ==
    /\ last = [op |-> "update", status |-> 200]
    /\ Len(auditLogs) = 2
    /\ auditLogs[1].reportId = auditLogs[2].reportId
    /\ auditLogs[1].timestamp < auditLogs[2].timestamp
    /\ \E i \in Stored : reports[i].id = auditLogs[1].reportId

\* the clients whose create was answered 201 and whose background log is still to
\* run, has run, or has failed
Created == {c \in Clients : inflight[c].pc \in {"logging"} \cup LogOutcomes}

\* the step in which the background log of client c runs
LogRuns(c) == inflight[c].pc = "logging" /\ inflight'[c].pc \in LogOutcomes

\* C21: the background log started by a successful create never affects the
\* create: while it is still to run the report is already stored and the answer
\* is already 201; the step in which it runs, succeeding or failing, changes
\* neither the repository nor the answer of any request; so the state in which it
\* never ran and the states after it ran hold the same repository and answers.
C21_BackgroundHarmless ==
    /\ [](\A c \in Created :
             /\ inflight[c].status = 201
             /\ getReport(reports, inflight[c].report) # NoReport
             /\ getReport(reports, inflight[c].report).title = inflight[c].body.title)
    /\ [][\A c \in Clients :
              LogRuns(c) =>
                  /\ reports' = reports
                  /\ nextId' = nextId
                  /\ assigned' = assigned
                  /\ auditLogs' = auditLogs
                  /\ last' = last
                  /\ \A d \in Clients :
                         /\ inflight'[d].status = inflight[d].status
                         /\ inflight'[d].report = inflight[d].report]_vars

\* the background log of one create failed and that of another is still to run,
\* with both reports stored
C21_Witness ==
    \E c, d \in Clients :
        /\ inflight[c].pc = "failed" /\ inflight[c].status = 201
        /\ inflight[d].pc = "logging" /\ inflight[d].status = 201
        /\ getReport(reports, inflight[c].report) # NoReport
        /\ getReport(reports, inflight[d].report) # NoReport

\* C22: low, medium and high can be set by either role on any stored report,
\* whatever its severity (a critical report is lowered too): the update is
\* answered 200 and the report carries the value; no valid update without
\* severity = critical is answered 403, and a 403 goes to a developer only.
C22_OtherSeveritiesOpen ==
    \A u \in Callers, i \in Stored :
        /\ \A sev \in Severities \ {"critical"} :
               LET r == putReport(reports, auditLogs, u, Path(reports[i].id),
                                  Body(Absent, Absent, sev, FALSE), now, now)
               IN  /\ r.status = 200
                   /\ r.reports[i].severity = sev
                   /\ r.body.severity = sev
        /\ \A body \in UpdateBodies :
               LET r == putReport(reports, auditLogs, u, Path(reports[i].id), body,
                                  now, now)
               IN  r.status = 403 => body.severity = "critical" /\ u.role = "developer"

\* a developer has lowered a critical report
C22_Witness ==
    /\ last = [op |-> "update", status |-> 200]
    /\ \E k \in 1 .. Len(auditLogs) :
           /\ auditLogs[k].userId = "dev1"
           /\ "severity" \in DOMAIN auditLogs[k].changes
           /\ auditLogs[k].changes["severity"] = <<"critical", "low">>

\* the token the upload of attachment k of stored report i minted
TokenOf(i, k) ==
    sign(CapPayload(reports[i].id, reports[i].attachments[k].filename), CapTTL,
         reports[i].attachments[k].uploadedAt)

\* a step that is a download request
DownloadStep == last'.op = "download" /\ now' = now

\* C23: in every state, also after any number of downloads, the token minted for
\* a stored attachment is answered 200 on its own path as long as it has not
\* expired, and so is every unexpired token held by a client whose report and
\* attachment are stored; a download leaves the reports, the id counter, the audit
\* log, the tokens and the files as they were, and every token held is answered
\* on its own path after it as before it.
C23_TokenReusable ==
    /\ [](\A i \in Stored : \A k \in 1 .. Len(reports[i].attachments) :
             /\ TokenOf(i, k) \in tokens
             /\ Unexpired(TokenOf(i, k)) =>
                    Download(NoHeader, Path(reports[i].id),
                             reports[i].attachments[k].filename,
                             TokenOf(i, k)).status = 200)
    /\ [](\A tk \in CapTokens :
             (Unexpired(tk) /\ HasAttachment(tk.reportId, tk.file)) =>
                 Download(NoHeader, Path(tk.reportId), tk.file, tk).status = 200)
    /\ [][DownloadStep =>
              /\ reports' = reports
              /\ nextId' = nextId
              /\ auditLogs' = auditLogs
              /\ tokens' = tokens
              /\ uploads' = uploads
              /\ \A tk \in CapTokens :
                     getAttachment(reports', uploads', NoHeader, Path(tk.reportId),
                                   tk.file, tk, now')
                         = Download(NoHeader, Path(tk.reportId), tk.file, tk)]_vars

\* a download was answered 200 in the last millisecond of a token's lifetime,
\* the token still being held
C23_Witness ==
    /\ last = [op |-> "download", status |-> 200]
    /\ now = Ms(CapTTL) - 1
    /\ \E tk \in CapTokens :
           /\ tk.iat = 0
           /\ HasAttachment(tk.reportId, tk.file)
           /\ Download(NoHeader, Path(tk.reportId), tk.file, tk).status = 200

\* the mapping the claim fixes
FixedScore == [low |-> 1, medium |-> 2, high |-> 3, critical |-> 4]

\* the summary carries the report's id and severity, the fixed score of that
\* severity and the number of the report's entries
SummaryOf(body, report) ==
    /\ body.id = report.id
    /\ body.severity = report.severity
    /\ body.severityScore = FixedScore[report.severity]
    /\ body.entryCount = Len(report.entries)

\* C24: the summary answered by a create, a get (summary or expanded) and an
\* update carries severityScore = low 1, medium 2, high 3, critical 4 of the
\* report's severity as stored after the request and entryCount = the number of
\* its entries; a create without severity stores low; the first create ever
\* answers id 1, the score of its severity and entryCount 0.
C24_SummaryDerived ==
    /\ \A body \in CreateBodies :
           LET r == postReports(reports, nextId, body, now)
               created == getReport(r.reports, r.body.id)
           IN  r.status = 201 =>
                   /\ created # NoReport
                   /\ SummaryOf(r.body, created)
                   /\ r.body.entryCount = 0
                   /\ created.severity = IF body.severity = Absent THEN "low"
                                         ELSE body.severity
                   /\ assigned = <<>> => r.body.id = 1
    /\ \A i \in Stored, query \in Queries :
           LET r == getReports(reports, Path(reports[i].id), query) IN
           r.status = 200 => SummaryOf(r.body, reports[i])
    /\ \A u \in Callers, i \in Stored, body \in UpdateBodies :
           LET r == putReport(reports, auditLogs, u, Path(reports[i].id), body,
                              now, now)
           IN  r.status = 200 => SummaryOf(r.body, r.reports[i])

\* the first create, sent without severity, was answered 201: report 1 is stored
\* with severity low
C24_Witness ==
    /\ last = [op |-> "create", status |-> 201]
    /\ assigned = <<1>>
    /\ Len(reports) = 1
    /\ reports[1].id = 1
    /\ reports[1].severity = "low"
    /\ reports[1].entries = <<>>

\* C25: for every stored report, GET with include=entries,attachments is
\* answered 200 with the summary fields, the report's entries and its
\* attachments, and GET without include is answered the summary with neither.
C25_ExpandedView ==
    \A i \in Stored :
        LET full == getReports(reports, Path(reports[i].id),
                               Query("entries,attachments", Absent, NoParam, NoParam))
            plain == getReports(reports, Path(reports[i].id),
                                Query(Absent, Absent, NoParam, NoParam))
        IN  /\ full.status = 200
            /\ full.body = Summary(reports[i])
            /\ full.expanded
            /\ Ids(full.entries) = Ids(reports[i].entries)
            /\ full.attached
            /\ plain.status = 200
            /\ plain.body = Summary(reports[i])
            /\ ~plain.expanded
            /\ ~plain.attached

\* the fields of a report no update may touch
Frame(report) ==
    [id |-> report.id, createdAt |-> report.createdAt, entries |-> report.entries,
     attachments |-> report.attachments]

\* C26: after every update answered 200, each of title, description and severity
\* that the payload lacks has its stored value of before and each one the payload
\* carries has the payload's value; whatever the answer, the id, createdAt, entries
\* and attachments of every report are as before, and no report is added or removed.
C26_PartialUpdate ==
    \A u \in Callers, i \in Stored, body \in UpdateBodies :
        LET r == putReport(reports, auditLogs, u, Path(reports[i].id), body, now, now)
        IN  /\ Len(r.reports) = Len(reports)
            /\ \A j \in Stored : j # i => r.reports[j] = reports[j]
            /\ Frame(r.reports[i]) = Frame(reports[i])
            /\ r.status = 200 =>
                   \A f \in UpdateFields :
                       r.reports[i][f] = IF body[f] # Absent THEN body[f]
                                         ELSE reports[i][f]

\* an update changed the description alone of a report that has an attachment
\* and was created earlier
C26_Witness ==
    /\ last = [op |-> "update", status |-> 200]
    /\ \E i \in Stored :
           /\ reports[i].description = "d2"
           /\ reports[i].title \in {"bug", "crash"}
           /\ reports[i].severity = "low"
           /\ reports[i].attachments # <<>>
           /\ reports[i].createdAt < reports[i].updatedAt
           /\ \E k \in 1 .. Len(auditLogs) :
                  /\ auditLogs[k].reportId = reports[i].id
                  /\ DOMAIN auditLogs[k].changes = {"description"}

\* the fields of a report the update operation writes
Mutable(report) ==
    [title |-> report.title, description |-> report.description,
     severity |-> report.severity, updatedAt |-> report.updatedAt]

\* the step is an update of stored report i with a non-empty diff: answered 200,
\* one audit record appended that lists exactly the fields that changed, and
\* updatedAt set to the time of the request
UpdateEffect(i) ==
    /\ last' = [op |-> "update", status |-> 200]
    /\ Len(auditLogs') = Len(auditLogs) + 1
    /\ SubSeq(auditLogs', 1, Len(auditLogs)) = auditLogs
    /\ LastEntry(auditLogs').reportId = reports[i].id
    /\ DOMAIN LastEntry(auditLogs').changes
           = {f \in UpdateFields : reports'[i][f] # reports[i][f]}
    /\ DOMAIN LastEntry(auditLogs').changes # {}
    /\ reports'[i].updatedAt = now

\* the step is an upload to stored report i: answered 200, one attachment
\* appended, updatedAt set to the time of the request, the three fields and the
\* audit log as before
UploadEffect(i) ==
    /\ last' = [op |-> "upload", status |-> 200]
    /\ Len(reports'[i].attachments) = Len(reports[i].attachments) + 1
    /\ \A f \in UpdateFields : reports'[i][f] = reports[i][f]
    /\ reports'[i].updatedAt = now
    /\ auditLogs' = auditLogs

\* C27 as stated: a stored report's title, description, severity and updatedAt
\* change only in a step that is an update of it with a non-empty diff, which
\* appends one audit record; every other step leaves the four fields as they were.
C27_Original ==
    [][/\ Len(reports') >= Len(reports)
       /\ \A i \in Stored :
              Mutable(reports'[i]) # Mutable(reports[i]) => UpdateEffect(i)]_vars

\* C27 amended: the four fields of a stored report change only in an update of it
\* with a non-empty diff (one audit record appended) or in a successful upload of
\* an attachment to it, which leaves title, description and severity, sets
\* updatedAt to the time of the upload and appends no audit record; get, create of
\* another report, login and download leave the four fields as they were.
C27_MutatedByUpdateOrUpload ==
    [][/\ Len(reports') >= Len(reports)
       /\ \A i \in Stored :
              Mutable(reports'[i]) # Mutable(reports[i])
              => UpdateEffect(i) \/ UploadEffect(i)]_vars

\* an upload, later than the creation, has moved updatedAt of a report whose
\* title, description and severity are as created, and the audit log is empty
C27_Witness ==
    /\ last = [op |-> "upload", status |-> 200]
    /\ auditLogs = <<>>
    /\ \E i \in Stored :
           /\ reports[i].attachments # <<>>
           /\ reports[i].createdAt < reports[i].updatedAt
           /\ reports[i].updatedAt = now
           /\ reports[i].description = "d1"
           /\ reports[i].severity = "low"

\* the ids a login accepts
LoginIds == {body.id : body \in {b \in LoginBodies : login(b, now).status = 200}}

\* C28: every request requireAuth admits carries an identity with role admin or
\* developer and an id given at login; a capability token sent as the Bearer
\* credential is answered 401 Unauthorized and the handler is not run.
C28_SessionsOnly ==
    \A h \in AuthHeaders :
        LET a == requireAuth(h, now) IN
        /\ a.ok => /\ a.user.set
                   /\ a.user.role \in {"admin", "developer"}
                   /\ a.user.id \in LoginIds
        /\ (h.scheme = "Bearer" /\ h.token \in CapTokens) =>
               /\ ~a.ok
               /\ a.status = 401
               /\ a.body = Unauthorized

\* the answers of PUT /reports/:id that are errors
UpdateErrors == {400, 403, 404, 409}

\* C29: an update answered 400 (id not numeric, body empty or invalid), 404, 409
\* or 403 leaves every report, updatedAt included, and the audit log exactly as
\* they were, whatever else the payload carries; every answer is 200 or one of
\* these; and a step that answers an update with an error changes neither.
C29_FailedUpdateChangesNothing ==
    /\ [](\A u \in Callers, raw \in RawIds, body \in UpdateBodies :
             LET r == putReport(reports, auditLogs, u, raw, body, now, now) IN
             /\ r.status \in UpdateErrors \cup {200}
             /\ r.status \in UpdateErrors =>
                    r.reports = reports /\ r.auditLogs = auditLogs)
    /\ [][(last'.op = "update" /\ last'.status # 200)
          => UNCHANGED <<reports, nextId, auditLogs>>]_vars

\* a developer's update was answered 403 although its title and description
\* would have been changes, and nothing was changed or recorded
C29_Witness ==
    /\ last = [op |-> "update", status |-> 403]
    /\ auditLogs = <<>>
    /\ \E i \in Stored :
           LET r == putReport(reports, auditLogs, Developer, Path(reports[i].id),
                              Body("bug", "d2", "critical", FALSE), now, now)
           IN  /\ r.status = 403
               /\ reports[i].description # "d2"
               /\ reports[i].title # "bug"
               /\ reports[i].updatedAt = reports[i].createdAt

\* no two reports of rs have titles equal ignoring case
TitlesUnique(rs) ==
    \A i, j \in 1 .. Len(rs) :
        i # j => ~SameIgnoringCase(rs[i].title, rs[j].title)

\* C30: after every sequence of direct calls of ReportStore.addReport and
\* ReportStore.updateReport no two stored reports have titles equal ignoring
\* case, and no such call makes two titles equal.
C30_StoreKeepsTitlesUnique ==
    /\ TitlesUnique(reports)
    /\ \A data \in StoreData :
           TitlesUnique(reports) =>
               TitlesUnique(addReport(reports, nextId, data, now).reports)
    /\ \A i \in Stored, updates \in StoreUpdates :
           TitlesUnique(reports) =>
               TitlesUnique(updateReport(reports, reports[i].id, updates, now).reports)

\* the session tokens a client can hold: those issued, and one signed now for an
\* admin and for a developer
HeldSessions ==
    SessionTokens
    \cup {sign(AuthPayload(u.id, u.role), SessionTTL, now) : u \in Callers}

\* C31: a session token sent as the token query parameter of a download never
\* yields file bytes; while it is valid, every path with a report id and a file
\* name, stored or not, is answered 403 'Invalid token for this file'.
C31_SessionTokenNoDownload ==
    \A tk \in HeldSessions, raw \in RawIds, f \in FileNames :
        LET r == Download(NoHeader, raw, f, tk) IN
        /\ ~r.bytes
        /\ r.status # 200
        /\ (Unexpired(tk) /\ raw \in NumericPaths) =>
               r.status = 403 /\ r.body = Err("Invalid token for this file")

\* a download was answered 403 while a session token is held and an attachment
\* is stored with its file, for which that session token is refused
C31_Witness ==
    /\ last = [op |-> "download", status |-> 403]
    /\ \E tk \in SessionTokens, i \in Stored :
           /\ Unexpired(tk)
           /\ reports[i].attachments # <<>>
           /\ reports[i].attachments[1].filename \in uploads
           /\ Download(NoHeader, Path(reports[i].id),
                        reports[i].attachments[1].filename, tk).status = 403

\* the ids of the reports that were created and are no longer stored
Deleted == {id \in Ids(assigned) : getReport(reports, id) = NoReport}

\* C32: a download against the id of a deleted report sends no bytes, whatever
\* the file name and the token; an unexpired capability token minted for (r, f)
\* is answered 404 once r is deleted; a deleted id stays without a report in every
\* later state, since no later create is given it, and every token that is
\* served bytes names a stored report that was created before the token was minted.
C32_DeletedNeverServed ==
    /\ [](\A id \in Deleted, f \in FileNames, tk \in QueryTokens :
             LET r == Download(NoHeader, Path(id), f, tk) IN
             /\ ~r.bytes
             /\ (tk \in CapTokens /\ Unexpired(tk) /\ tk.reportId = id /\ tk.file = f)
                => r.status = 404 /\ r.body = Err("File not found"))
    /\ [](\A tk \in CapTokens :
             Download(NoHeader, Path(tk.reportId), tk.file, tk).bytes =>
                 /\ tk.reportId \notin Deleted
                 /\ Sec(getReport(reports, tk.reportId).createdAt) <= tk.iat)
    /\ [][Deleted \subseteq Deleted']_vars

\* a download was answered 404 while an unexpired token names a deleted report,
\* its file is still on disk and a report created later is stored
C32_Witness ==
    /\ last = [op |-> "download", status |-> 404]
    /\ \E tk \in CapTokens :
           /\ Unexpired(tk)
           /\ tk.reportId \in Deleted
           /\ tk.file \in uploads
           /\ \E i \in Stored : reports[i].id > tk.reportId
           /\ Download(NoHeader, Path(tk.reportId), tk.file, tk).status = 404

\* the number of audit records of report id
AuditCount(logs, id) ==
    Cardinality({k \in 1 .. Len(logs) : logs[k].reportId = id})

\* a step that answers an update of report id with 200
SuccessfulUpdate(id) ==
    /\ last' = [op |-> "update", status |-> 200]
    /\ getReport(reports', id) # NoReport

\* C33: the clock never goes back, and then every stored report has
\* createdAt <= updatedAt; a report is created with the id of the counter and
\* createdAt = updatedAt = the time of the create; while it is stored its id and
\* createdAt stay as created and its updatedAt never decreases; the audit records
\* of a report start at none and grow by at most one per step, and only in a step
\* that answers an update of that report with 200, so they never outnumber the
\* successful updates of the report.
C33_TimestampsAndAuditBound ==
    /\ [](/\ \A i \in Stored :
                /\ reports[i].createdAt <= reports[i].updatedAt
                /\ reports[i].updatedAt <= now
                /\ reports[i].id \in Ids(assigned)
                /\ reports[i].id < nextId
           /\ \A id \in 1 .. MaxId + 1 :
                id \notin Ids(assigned) => AuditCount(auditLogs, id) = 0)
    /\ [][/\ now <= now'
          /\ \A id \in 1 .. MaxId + 1 :
                LET before == getReport(reports, id)
                    after == getReport(reports', id)
                IN  /\ (before # NoReport /\ after # NoReport) =>
                           /\ after.createdAt = before.createdAt
                           /\ before.updatedAt <= after.updatedAt
                           /\ IndexOf(reports', id) = IndexOf(reports, id)
                    /\ (before = NoReport /\ after # NoReport) =>
                           /\ id = nextId
                           /\ after.createdAt = now
                           /\ after.updatedAt = now
                    /\ AuditCount(auditLogs', id) <= AuditCount(auditLogs, id) + 1
                    /\ AuditCount(auditLogs, id) <= AuditCount(auditLogs', id)
                    /\ AuditCount(auditLogs', id) > AuditCount(auditLogs, id)
                       => SuccessfulUpdate(id)]_vars

\* a report created at 0 was updated twice and given an attachment; its
\* updatedAt is later than its createdAt and both audit records are its own
C33_Witness ==
    /\ last = [op |-> "update", status |-> 200]
    /\ \E i \in Stored :
           /\ reports[i].createdAt < reports[i].updatedAt
           /\ reports[i].attachments # <<>>
           /\ AuditCount(auditLogs, reports[i].id) = 2
           /\ Len(reports) = 2

====
